---- MODULE Spec2Model ----
(***************************************************************************)
(* Capture-to-verdict pipeline of the CameraScreen component               *)
(* (src/unnamed/part_002): takePicture, uploadToSupabase, cancelUpload,    *)
(* the geofence check and the reconciliation of the remote analysis        *)
(* response with the local signals.                                        *)
(*                                                                         *)
(* takePicture is an async function: every `await` is a point where the    *)
(* JS event loop may run another handler (a press on Capture or Cancel,    *)
(* the continuation of another takePicture call).  Each invocation is a    *)
(* process with its own program counter and its own locals; the React      *)
(* state cells (isUploading, abortController, resultData, ...) are shared. *)
(* Code between two awaits runs atomically and is one action.              *)
(*                                                                         *)
(* Optional JS values (null / undefined) are sequences of length 0 or 1.   *)
(* A message is the sequence of the reasons the backend joins with "; ";   *)
(* String.includes(marker) is membership of the marker among the reasons.  *)
(***************************************************************************)
EXTENDS Integers, Sequences, FiniteSets, TLC

\* ---------------------------------------------------------------- bounds
MaxSubmissions == 2

\* ------------------------------------------------------- optional values
None == <<>>
Some(x) == <<x>>
IsSome(o) == Len(o) = 1
Get(o) == o[1]
\* a ?? b
OrElse(o, d) == IF IsSome(o) THEN Get(o) ELSE d

\* ------------------------------------------------------ geofence config
GEOFENCE_RADIUS_M == 1500

\* Positions the device can report, named; "sentinel" is the (0,0) default
\* of takePicture, "center" is GEOFENCE_CENTER.
Positions == {"center", "far"}
SentinelCoords == "sentinel"

\* haversineMeters(user, GEOFENCE_CENTER), in whole meters, for the named
\* positions: (20.2961,85.8245) -> 0, (20.3161,85.8245) -> 2224,
\* (0,0) -> 9572122.
haversineMeters(user) ==
    CASE user = "center"   -> 0
      [] user = "far"      -> 2224
      [] user = "sentinel" -> 9572122

ZoneReason == <<"Out of allowed zone">>

\* return dist <= GEOFENCE_RADIUS_M ? { ok: true } : { ok: false, reason }
geofenceDecision_Strict(dist, radius) ==
    IF dist < radius
    THEN [ok |-> TRUE, reason |-> None]
    ELSE [ok |-> FALSE, reason |-> Some(ZoneReason)]

geofenceDecision(dist, radius) ==
    IF dist <= radius
    THEN [ok |-> TRUE, reason |-> None]
    ELSE [ok |-> FALSE, reason |-> Some(ZoneReason)]

checkGeofence(user) == geofenceDecision(haversineMeters(user), GEOFENCE_RADIUS_M)

\* const preliminary = !geo.ok ? {violation, "Out of allowed zone"} : {pending, null}
preliminary(coords) ==
    IF ~checkGeofence(coords).ok
    THEN [status |-> "violation", message |-> Some(ZoneReason)]
    ELSE [status |-> "pending", message |-> None]

\* ------------------------------------------------- remote analysis reply
QR_FOUND == "QR Found Correctly"     \* the source's marker carries a leading check mark
NO_BILLBOARD == "No billboard detected"

Includes(msg, marker) == \E i \in DOMAIN msg : msg[i] = marker

\* JSON bodies the analysis service may answer with: status and message
\* are each present or absent; "" is the empty string.
ServerStatuses == {None, Some(""), Some("success"), Some("violation")}
ServerMessages == {None, Some(<<QR_FOUND>>), Some(<<NO_BILLBOARD, QR_FOUND>>),
                   Some(<<"Missing QR">>)}
Replies == [status : ServerStatuses, message : ServerMessages]

\* The same bodies, and those whose status is a string the app does not
\* name; "flagged" stands for any such string.
OpenReplies == [status : ServerStatuses \cup {Some("flagged")}, message : ServerMessages]

\* if (serverStatus): JS truthiness of an optional string
Truthy(o) == IsSome(o) /\ Get(o) # ""

STORED_MSG == <<"Report stored in Supabase">>
VIOLATION_MSG == <<"Policy violation detected">>
UPLOAD_FAILED_MSG == <<"Upload failed">>
CAUGHT_MSG == <<"Could not capture or send photo">>

\* const serverStatus = data?.status;  const serverMessage = data?.message
\* data : None (fetch or json() threw) or Some(reply)
serverStatusOf(data) == IF IsSome(data) THEN Get(data).status ELSE None
serverMessageOf(data) == IF IsSome(data) THEN Get(data).message ELSE None

\* serverMessage?.includes(QR_FOUND) && !serverMessage.includes(NO_BILLBOARD)
QrConfirmed(serverMessage) ==
    /\ IsSome(serverMessage)
    /\ Includes(Get(serverMessage), QR_FOUND)
    /\ ~Includes(Get(serverMessage), NO_BILLBOARD)

RemoteVerdict_CannedSwapped(serverStatus, serverMessage) ==
    [status |-> Get(serverStatus),
     message |-> OrElse(serverMessage,
                        IF Get(serverStatus) = "success" THEN VIOLATION_MSG ELSE STORED_MSG)]

\* the `else if (serverStatus)` branch
RemoteVerdict(serverStatus, serverMessage) ==
    [status |-> Get(serverStatus),
     message |-> OrElse(serverMessage,
                        IF Get(serverStatus) = "success" THEN STORED_MSG ELSE VIOLATION_MSG)]

LocalVerdict_UrlFirst(prelim, supabaseUrl) ==
    IF IsSome(supabaseUrl)
    THEN [status |-> "success", message |-> STORED_MSG]
    ELSE IF prelim.status = "violation"
    THEN [status |-> "violation", message |-> OrElse(prelim.message, VIOLATION_MSG)]
    ELSE [status |-> "error", message |-> UPLOAD_FAILED_MSG]

LocalVerdict_KeepsPreliminary(prelim, supabaseUrl) ==
    IF prelim.status = "violation"
    THEN [status |-> "violation", message |-> OrElse(prelim.message, VIOLATION_MSG)]
    ELSE IF IsSome(supabaseUrl)
    THEN [status |-> "success", message |-> STORED_MSG]
    ELSE [status |-> prelim.status, message |-> UPLOAD_FAILED_MSG]

LocalVerdict_UrlSwapped(prelim, supabaseUrl) ==
    IF prelim.status = "violation"
    THEN [status |-> "violation", message |-> OrElse(prelim.message, VIOLATION_MSG)]
    ELSE IF IsSome(supabaseUrl)
    THEN [status |-> "error", message |-> UPLOAD_FAILED_MSG]
    ELSE [status |-> "success", message |-> STORED_MSG]

\* the final `else` branch: no usable remote verdict
\* prelim : preliminary;  supabaseUrl : None or Some(url)
LocalVerdict(prelim, supabaseUrl) ==
    IF prelim.status = "violation"
    THEN [status |-> "violation", message |-> OrElse(prelim.message, VIOLATION_MSG)]
    ELSE IF IsSome(supabaseUrl)
    THEN [status |-> "success", message |-> STORED_MSG]
    ELSE [status |-> "error", message |-> UPLOAD_FAILED_MSG]

Reconcile_StatusFirst(data, prelim, supabaseUrl) ==
    IF Truthy(serverStatusOf(data))
    THEN RemoteVerdict(serverStatusOf(data), serverMessageOf(data))
    ELSE IF QrConfirmed(serverMessageOf(data))
    THEN [status |-> "success", message |-> Get(serverMessageOf(data))]
    ELSE LocalVerdict(prelim, supabaseUrl)

Reconcile_LocalViolationFirst(data, prelim, supabaseUrl) ==
    IF QrConfirmed(serverMessageOf(data))
    THEN [status |-> "success", message |-> Get(serverMessageOf(data))]
    ELSE IF prelim.status = "violation"
    THEN LocalVerdict(prelim, supabaseUrl)
    ELSE IF Truthy(serverStatusOf(data))
    THEN RemoteVerdict(serverStatusOf(data), serverMessageOf(data))
    ELSE LocalVerdict(prelim, supabaseUrl)

\* finalStatus / finalMessage of takePicture
Reconcile(data, prelim, supabaseUrl) ==
    IF QrConfirmed(serverMessageOf(data))
    THEN [status |-> "success", message |-> Get(serverMessageOf(data))]
    ELSE IF Truthy(serverStatusOf(data))
    THEN RemoteVerdict(serverStatusOf(data), serverMessageOf(data))
    ELSE LocalVerdict(prelim, supabaseUrl)

\* ------------------------------------------------------------------ state
VARIABLES
    isCameraReady,      \* useState(false), set by onCameraReady
    isUploading,        \* useState(false): the in-flight flag
    abortController,    \* useState(null): None or Some(s), the controller made by call s
    resultModalVisible, \* useState(false)
    resultData,         \* useState(null): None or Some(verdict)
    nCalls,             \* number of takePicture calls that passed the guard
    pc,                 \* pc[s]: the await call s is suspended at
    coords,             \* local `coords` of call s
    supabaseUrl,        \* local `supabaseUrl` of call s
    aborted,            \* controller.signal.aborted of the controller of call s
    reportId,           \* local `reportId` of call s
    formData,           \* local `formData` of call s: None until the form is built
    reports,            \* rows of the "reports" table inserted by this screen
    stored,             \* calls whose photo is an object of the "reports" bucket
                        \* (followed in BucketSpec)
    \* -- history, not program state
    verdicts,           \* verdicts[s]: number of setResultData calls made by call s
    resets,             \* resets[s]: setIsUploading(false) calls executed while call s was running,
                        \*            its own finalizer included
    lastVerdict,        \* None or Some(what the last setResultData was computed from):
                        \*   caught: by the outer catch;  data: the parsed reply, None if the
                        \*   analysis call threw;  prelim: preliminary.status;  url: supabaseUrl
    uploaded,           \* uploaded[s]: uploadToSupabase has returned to the running call s
    droppedNotReady,    \* the last press on Capture returned at the guard because the
                        \* camera was not ready
    respData,           \* local `data` of call s where it lives across an await
                        \* (the analyze-first variant), else None
    \* -- QR scanner
    scanEnabled,        \* useState(true)
    qrValue,            \* useState(null): None or Some(decoded code)
    scanModalVisible,   \* useState(false): the "QR Scanned!" popup
    scanWindow,         \* less than 3 s have passed since the last accepted detection
                        \* (the setTimeout callback of onBarCodeScanned is pending)
    qrSeen,             \* qrSeen[s]: the `qrValue` the takePicture closure of call s
                        \* was created with (the cell as of the render of the press)
    qrFresh,            \* history: the stored value comes from a detection that no
                        \* takePicture call has picked up yet
    scannedInFlight,    \* history: the last accepted detection came while a
                        \* takePicture call was running
    \* -- inputs and result of the local checks (see the local-check section)
    distIn,             \* a distance to the geofence center, whole meters
    nowIn,              \* a time of day of the window's date, milliseconds
    policyOut,          \* None or Some(results of the checks for distIn, nowIn)
    \* -- the Reports screen (see its section); `listed` is its `reports` cell
    listed,             \* useState([]): the pages put into the list, each as the
                        \* offset it was fetched from and the number of its rows
    loading,            \* useState(true)
    refreshing,         \* useState(false)
    page,               \* useState(0)
    endReached,         \* useState(false)
    loadingMoreRef,     \* useRef(false).current
    initCall,           \* "fetch": loadInitial awaits its page; "done": it has returned
    refreshCalls,       \* number of onRefresh calls awaiting their page
    moreCalls,          \* the `next` of each loadMore call awaiting its page
    lastFetch           \* history: the last fetchPage that returned or threw

vars == <<isCameraReady, isUploading, abortController, resultModalVisible, resultData,
          nCalls, pc, coords, supabaseUrl, aborted, reportId, formData, reports,
          verdicts, resets, lastVerdict, uploaded, droppedNotReady, respData,
          scanEnabled, qrValue, scanModalVisible, scanWindow, qrSeen, qrFresh,
          scannedInFlight, distIn, nowIn, policyOut, stored,
          listed, loading, refreshing, page, endReached, loadingMoreRef,
          initCall, refreshCalls, moreCalls, lastFetch>>

Calls == 1..MaxSubmissions

\* decoded QR payloads the camera may report
Codes == {"A", "B"}

scannerCells == <<scanEnabled, scanModalVisible, scanWindow, scannedInFlight>>
policyVars == <<distIn, nowIn, policyOut>>
listVars == <<listed, loading, refreshing, page, endReached, loadingMoreRef,
              initCall, refreshCalls, moreCalls, lastFetch>>

Running(s) == pc[s] \notin {"idle", "done"}
InFlight == {s \in Calls : Running(s)}

Init ==
    /\ isCameraReady = FALSE
    /\ isUploading = FALSE
    /\ abortController = None
    /\ resultModalVisible = FALSE
    /\ resultData = None
    /\ nCalls = 0
    /\ pc = [s \in Calls |-> "idle"]
    /\ coords = [s \in Calls |-> SentinelCoords]
    /\ supabaseUrl = [s \in Calls |-> None]
    /\ aborted = [s \in Calls |-> FALSE]
    /\ verdicts = [s \in Calls |-> 0]
    /\ resets = [s \in Calls |-> 0]
    /\ lastVerdict = None
    /\ reportId = [s \in Calls |-> None]
    /\ formData = [s \in Calls |-> None]
    /\ reports = {}
    /\ uploaded = [s \in Calls |-> FALSE]
    /\ droppedNotReady = FALSE
    /\ respData = [s \in Calls |-> None]
    /\ scanEnabled = TRUE
    /\ qrValue = None
    /\ scanModalVisible = FALSE
    /\ scanWindow = FALSE
    /\ scannedInFlight = FALSE
    /\ stored = {}
    /\ listed = <<>>
    /\ loading = TRUE
    /\ refreshing = FALSE
    /\ page = 0
    /\ endReached = FALSE
    /\ loadingMoreRef = FALSE
    /\ initCall = "fetch"
    /\ refreshCalls = 0
    /\ moreCalls = <<>>
    /\ lastFetch = [op |-> "none", ok |-> TRUE, n |-> 0, tick |-> FALSE]
    /\ qrSeen = [s \in Calls |-> None]
    /\ qrFresh = FALSE
    /\ distIn = 0
    /\ nowIn = 0
    /\ policyOut = None

\* ---------------------------------------------------- pieces of takePicture
\* setResultData(v); setResultModalVisible(true), by call s
Emit(s, v, src) ==
    /\ resultData' = Some(v)
    /\ resultModalVisible' = TRUE
    /\ verdicts' = [verdicts EXCEPT ![s] = @ + 1]
    /\ lastVerdict' = Some(src)

Finally_KeepsFlag(s) ==
    /\ abortController' = None
    /\ isUploading' = isUploading
    /\ resets' = resets
    /\ pc' = [pc EXCEPT ![s] = "done"]
    /\ coords' = [coords EXCEPT ![s] = SentinelCoords]
    /\ supabaseUrl' = [supabaseUrl EXCEPT ![s] = None]
    /\ reportId' = [reportId EXCEPT ![s] = None]
    /\ formData' = [formData EXCEPT ![s] = None]
    /\ uploaded' = [uploaded EXCEPT ![s] = FALSE]
    /\ qrValue' = None
    /\ qrFresh' = FALSE
    /\ qrSeen' = [qrSeen EXCEPT ![s] = None]

\* finally { setAbortController(null); setIsUploading(false); setQrValue(null) }
\* and the return of call s: its locals go out of scope.
\* resets counts this setIsUploading(false) for every call it is executed on.
Finally(s) ==
    /\ abortController' = None
    /\ isUploading' = FALSE
    /\ resets' = [t \in Calls |-> IF t = s \/ Running(t) THEN resets[t] + 1 ELSE resets[t]]
    /\ pc' = [pc EXCEPT ![s] = "done"]
    /\ coords' = [coords EXCEPT ![s] = SentinelCoords]
    /\ supabaseUrl' = [supabaseUrl EXCEPT ![s] = None]
    /\ reportId' = [reportId EXCEPT ![s] = None]
    /\ formData' = [formData EXCEPT ![s] = None]
    /\ uploaded' = [uploaded EXCEPT ![s] = FALSE]
    /\ qrValue' = None
    /\ qrFresh' = FALSE
    /\ qrSeen' = [qrSeen EXCEPT ![s] = None]

CatchOuter_Silent(s, errName) ==
    /\ UNCHANGED <<resultData, resultModalVisible, verdicts, lastVerdict>>
    /\ Finally(s)
    /\ UNCHANGED <<isCameraReady, nCalls, aborted, reports, droppedNotReady, respData,
                   scannerCells, policyVars, listVars, stored>>

CatchOuter_SkipsFinally(s, errName) ==
    /\ IF errName = "AbortError"
       THEN UNCHANGED <<resultData, resultModalVisible, verdicts, lastVerdict>>
       ELSE Emit(s, [status |-> "error", message |-> CAUGHT_MSG,
                     supabaseUrl |-> None, coords |-> None],
                 [caught |-> TRUE, data |-> None, prelim |-> "pending", url |-> None])
    /\ Finally_KeepsFlag(s)
    /\ UNCHANGED <<isCameraReady, nCalls, aborted, reports, droppedNotReady, respData,
                   scannerCells, policyVars, listVars, stored>>

\* catch (err) of the outer try, for an error thrown by call s at an await
\* outside the inner try blocks, then the finalizer.
CatchOuter(s, errName) ==
    /\ IF errName = "AbortError"
       THEN UNCHANGED <<resultData, resultModalVisible, verdicts, lastVerdict>>
       ELSE Emit(s, [status |-> "error", message |-> CAUGHT_MSG,
                     supabaseUrl |-> None, coords |-> None],
                 [caught |-> TRUE, data |-> None, prelim |-> "pending", url |-> None])
    /\ Finally(s)
    /\ UNCHANGED <<isCameraReady, nCalls, aborted, reports, droppedNotReady, respData,
                   scannerCells, policyVars, listVars, stored>>

\* Lines 226-263 and the finalizer: reconciliation of `data` with the local
\* signals of call s, setResultData, finally.
Resolve(s, data) ==
    LET v == Reconcile(data, preliminary(coords[s]), supabaseUrl[s])
    IN  /\ Emit(s, [status |-> v.status, message |-> v.message,
                    supabaseUrl |-> supabaseUrl[s], coords |-> Some(coords[s])],
                [caught |-> FALSE, data |-> data,
                 prelim |-> preliminary(coords[s]).status, url |-> supabaseUrl[s]])
        /\ Finally(s)
        /\ UNCHANGED <<isCameraReady, nCalls, aborted, reports, droppedNotReady, respData,
                   scannerCells, policyVars, listVars, stored>>

ReportRow_AlwaysPending(s) ==
    [id |-> s, status |-> "pending", message |-> None]

\* the row uploadToSupabase inserts for call s: status: opts?.status ?? "pending",
\* message: opts?.message ?? null, with opts = preliminary; the call number
\* stands for the generated id
ReportRow(s) ==
    [id |-> s, status |-> preliminary(coords[s]).status,
     message |-> preliminary(coords[s]).message]

StartAnalysis_ReadsCell(s, url) ==
    /\ reports' = IF IsSome(url) THEN reports \cup {ReportRow(s)} ELSE reports
    /\ supabaseUrl' = [supabaseUrl EXCEPT ![s] = url]
    /\ reportId' = [reportId EXCEPT ![s] = IF IsSome(url) THEN Some(s) ELSE None]
    /\ uploaded' = [uploaded EXCEPT ![s] = TRUE]
    /\ formData' = [formData EXCEPT ![s] =
                       Some([image_url |-> OrElse(url, ""),
                             qr_value |-> OrElse(qrValue, ""),
                             report_id |-> IF IsSome(url) THEN Some(s) ELSE None])]
    /\ abortController' = Some(s)
    /\ aborted' = [aborted EXCEPT ![s] = FALSE]
    /\ pc' = [pc EXCEPT ![s] = "fetch"]
    /\ UNCHANGED <<isCameraReady, isUploading, resultModalVisible, resultData,
                   nCalls, coords, verdicts, resets, lastVerdict, droppedNotReady, respData,
                   scannerCells, policyVars, listVars, stored, qrValue, qrSeen, qrFresh>>

\* Lines 131-155, 194-219: uploadToSupabase returned { url, id } (both set
\* after a successful insert of ReportRow, both null on any failure); new
\* AbortController, setAbortController(controller), build the form
\* (image_url: supabaseUrl ?? "", qr_value: qrValue ?? "" with the qrValue of
\* the closure, report_id only if reportId), call fetch
\* with the controller's signal.
StartAnalysis(s, url) ==
    /\ reports' = IF IsSome(url) THEN reports \cup {ReportRow(s)} ELSE reports
    /\ supabaseUrl' = [supabaseUrl EXCEPT ![s] = url]
    /\ reportId' = [reportId EXCEPT ![s] = IF IsSome(url) THEN Some(s) ELSE None]
    /\ uploaded' = [uploaded EXCEPT ![s] = TRUE]
    /\ formData' = [formData EXCEPT ![s] =
                       Some([image_url |-> OrElse(url, ""),
                             qr_value |-> OrElse(qrSeen[s], ""),
                             report_id |-> IF IsSome(url) THEN Some(s) ELSE None])]
    /\ abortController' = Some(s)
    /\ aborted' = [aborted EXCEPT ![s] = FALSE]
    /\ pc' = [pc EXCEPT ![s] = "fetch"]
    /\ UNCHANGED <<isCameraReady, isUploading, resultModalVisible, resultData,
                   nCalls, coords, verdicts, resets, lastVerdict, droppedNotReady, respData,
                   scannerCells, policyVars, listVars, stored, qrValue, qrSeen, qrFresh>>

Goto(s, label) ==
    /\ pc' = [pc EXCEPT ![s] = label]
    /\ UNCHANGED <<isCameraReady, isUploading, abortController, resultModalVisible,
                   resultData, nCalls, coords, supabaseUrl, aborted, verdicts, resets,
                   lastVerdict, reportId, formData, reports, uploaded, droppedNotReady, respData,
                   scannerCells, policyVars, listVars, stored, qrValue, qrSeen, qrFresh>>

\* the storage upload of call s returned without error: the photo is in
\* the bucket, the call goes on to the insert
StorageUploaded(s) ==
    /\ stored' = stored \cup {s}
    /\ pc' = [pc EXCEPT ![s] = "insert"]
    /\ UNCHANGED <<isCameraReady, isUploading, abortController, resultModalVisible,
                   resultData, nCalls, coords, supabaseUrl, aborted, verdicts, resets,
                   lastVerdict, reportId, formData, reports, uploaded, droppedNotReady, respData,
                   scannerCells, policyVars, listVars, qrValue, qrSeen, qrFresh>>

\* ---------------------------------------------------------------- actions
\* <Camera onCameraReady={() => setIsCameraReady(true)}>
OnCameraReady ==
    /\ ~isCameraReady
    /\ isCameraReady' = TRUE
    /\ droppedNotReady' = FALSE
    /\ UNCHANGED <<isUploading, abortController, resultModalVisible, resultData, nCalls,
                   pc, coords, supabaseUrl, aborted, verdicts, resets, lastVerdict,
                   reportId, formData, reports, uploaded, respData,
                   scannerCells, policyVars, listVars, stored, qrValue, qrSeen, qrFresh>>

\* takePicture, up to its first await: the guard, setIsUploading(true),
\* takePictureAsync is called.  (The camera is mounted, cameraRef.current is set.)
TakePicture ==
    /\ ~(isUploading \/ ~isCameraReady)
    /\ nCalls < MaxSubmissions
    /\ nCalls' = nCalls + 1
    /\ isUploading' = TRUE
    /\ pc' = [pc EXCEPT ![nCalls + 1] = "capture"]
    /\ qrSeen' = [qrSeen EXCEPT ![nCalls + 1] = qrValue]
    /\ qrFresh' = (qrFresh /\ ~IsSome(qrValue))
    /\ UNCHANGED <<isCameraReady, abortController, resultModalVisible, resultData,
                   coords, supabaseUrl, aborted, verdicts, resets, lastVerdict,
                   reportId, formData, reports, uploaded, droppedNotReady, respData,
                   scannerCells, policyVars, listVars, stored, qrValue>>

TakePictureIgnored_ErrorVerdict ==
    /\ isUploading \/ ~isCameraReady
    /\ droppedNotReady' = ~isCameraReady
    /\ resultData' = IF isCameraReady THEN resultData
                     ELSE Some([status |-> "error", message |-> CAUGHT_MSG,
                                supabaseUrl |-> None, coords |-> None])
    /\ resultModalVisible' = (resultModalVisible \/ ~isCameraReady)
    /\ UNCHANGED <<isCameraReady, isUploading, abortController,
                   nCalls, pc, coords, supabaseUrl, aborted, verdicts,
                   resets, lastVerdict, reportId, formData, reports, uploaded, respData,
                   scannerCells, policyVars, listVars, stored, qrValue, qrSeen, qrFresh>>

\* takePicture when the guard returns early: nothing is set, no verdict
TakePictureIgnored ==
    /\ isUploading \/ ~isCameraReady
    /\ droppedNotReady' = ~isCameraReady
    /\ UNCHANGED <<isCameraReady, isUploading, abortController, resultModalVisible,
                   resultData, nCalls, pc, coords, supabaseUrl, aborted, verdicts,
                   resets, lastVerdict, reportId, formData, reports, uploaded, respData,
                   scannerCells, policyVars, listVars, stored, qrValue, qrSeen, qrFresh>>

\* await cameraRef.current.takePictureAsync(...)
CaptureDone(s) ==
    /\ pc[s] = "capture"
    /\ \/ Goto(s, "locate")
       \/ CatchOuter(s, "Error")

\* await Location.getCurrentPositionAsync(...) inside its own try/catch
LocateDone(s) ==
    /\ pc[s] = "locate"
    /\ \/ \E p \in Positions : coords' = [coords EXCEPT ![s] = p]
       \/ coords' = coords
    /\ pc' = [pc EXCEPT ![s] = "geocode"]
    /\ UNCHANGED <<isCameraReady, isUploading, abortController, resultModalVisible,
                   resultData, nCalls, supabaseUrl, aborted, verdicts, resets, lastVerdict,
                   reportId, formData, reports, uploaded, droppedNotReady, respData,
                   scannerCells, policyVars, listVars, stored, qrValue, qrSeen, qrFresh>>

\* await Location.reverseGeocodeAsync(coords) inside its own try/catch, then
\* checkGeofence (see preliminary) and the call of supabase.auth.getUser()
GeocodeDone(s) ==
    /\ pc[s] = "geocode"
    /\ Goto(s, "getUser")

\* await supabase.auth.getUser(); uploadToSupabase starts: readAsStringAsync
GetUserDone(s) ==
    /\ pc[s] = "getUser"
    /\ \/ Goto(s, "readFile")
       \/ CatchOuter(s, "Error")

ReadFileDone_Fatal(s) ==
    /\ pc[s] = "readFile"
    /\ \/ Goto(s, "storageUpload")
       \/ CatchOuter(s, "Error")

\* uploadToSupabase: await FileSystem.readAsStringAsync(...)
ReadFileDone(s) ==
    /\ pc[s] = "readFile"
    /\ \/ Goto(s, "storageUpload")
       \/ StartAnalysis(s, None)

\* uploadToSupabase: await supabase.storage.from("reports").upload(...)
StorageUploadDone(s) ==
    /\ pc[s] = "storageUpload"
    /\ \/ Goto(s, "insert")
       \/ StartAnalysis(s, None)

InsertDone_UrlWithoutRow(s) ==
    /\ pc[s] = "insert"
    /\ \/ StartAnalysis(s, Some("publicUrl"))
       \/ /\ supabaseUrl' = [supabaseUrl EXCEPT ![s] = Some("publicUrl")]
          /\ uploaded' = [uploaded EXCEPT ![s] = TRUE]
          /\ formData' = [formData EXCEPT ![s] =
                             Some([image_url |-> "publicUrl",
                                   qr_value |-> OrElse(qrSeen[s], ""),
                                   report_id |-> None])]
          /\ abortController' = Some(s)
          /\ aborted' = [aborted EXCEPT ![s] = FALSE]
          /\ pc' = [pc EXCEPT ![s] = "fetch"]
          /\ UNCHANGED <<isCameraReady, isUploading, resultModalVisible, resultData,
                         nCalls, coords, verdicts, resets, lastVerdict, droppedNotReady,
                         respData, scannerCells, policyVars, listVars, stored, qrValue, qrSeen, qrFresh,
                         reports, reportId>>

\* uploadToSupabase: await supabase.from("reports").insert(...).select("id").single()
InsertDone(s) ==
    /\ pc[s] = "insert"
    /\ \/ StartAnalysis(s, Some("publicUrl"))
       \/ StartAnalysis(s, None)

\* await fetch(`${API_BASE_URL}/analyze`, {..., signal}) inside the inner try:
\* an aborted request rejects (AbortError); otherwise it resolves with a
\* response or rejects (network failure).  The inner catch only logs.
FetchDone(s) ==
    /\ pc[s] = "fetch"
    /\ \/ /\ ~aborted[s]
          /\ Goto(s, "json")
       \/ Resolve(s, None)

\* data = await res.json() inside the inner try: a parsed body, or a throw
\* (unparsable body, or the body read was aborted); R: the bodies the
\* service may answer with
JsonDoneIn(s, R) ==
    /\ pc[s] = "json"
    /\ \/ \E r \in R : Resolve(s, Some(r))
       \/ Resolve(s, None)

JsonDone(s) == JsonDoneIn(s, Replies)

\* cancelUpload, the onPress of the Cancel button of the overlay that is
\* rendered while isUploading
cancelUpload_AbortsRunning ==
    /\ isUploading
    /\ aborted' = [t \in Calls |-> aborted[t] \/ Running(t)]
    /\ isUploading' = FALSE
    /\ resets' = [t \in Calls |-> IF Running(t) THEN resets[t] + 1 ELSE resets[t]]
    /\ UNCHANGED <<isCameraReady, abortController, resultModalVisible, resultData,
                   nCalls, pc, coords, supabaseUrl, verdicts, lastVerdict,
                   reportId, formData, reports, uploaded, droppedNotReady, respData,
                   scannerCells, policyVars, listVars, stored, qrValue, qrSeen, qrFresh>>

cancelUpload_RollsBack ==
    /\ isUploading
    /\ aborted' = IF IsSome(abortController)
                  THEN [aborted EXCEPT ![Get(abortController)] = TRUE]
                  ELSE aborted
    /\ reports' = IF IsSome(abortController)
                  THEN {r \in reports : r.id # Get(abortController)}
                  ELSE reports
    /\ isUploading' = FALSE
    /\ resets' = [t \in Calls |-> IF Running(t) THEN resets[t] + 1 ELSE resets[t]]
    /\ UNCHANGED <<isCameraReady, abortController, resultModalVisible, resultData,
                   nCalls, pc, coords, supabaseUrl, verdicts, lastVerdict,
                   reportId, formData, uploaded, droppedNotReady, respData,
                   scannerCells, policyVars, listVars, stored, qrValue, qrSeen, qrFresh>>

cancelUpload ==
    /\ isUploading
    /\ aborted' = IF IsSome(abortController)
                  THEN [aborted EXCEPT ![Get(abortController)] = TRUE]
                  ELSE aborted
    /\ isUploading' = FALSE
    /\ resets' = [t \in Calls |-> IF Running(t) THEN resets[t] + 1 ELSE resets[t]]
    /\ UNCHANGED <<isCameraReady, abortController, resultModalVisible, resultData,
                   nCalls, pc, coords, supabaseUrl, verdicts, lastVerdict,
                   reportId, formData, reports, uploaded, droppedNotReady, respData,
                   scannerCells, policyVars, listVars, stored, qrValue, qrSeen, qrFresh>>

\* Close button / onRequestClose of the result modal
CloseModal ==
    /\ resultModalVisible
    /\ resultModalVisible' = FALSE
    /\ UNCHANGED <<isCameraReady, isUploading, abortController, resultData, nCalls,
                   pc, coords, supabaseUrl, aborted, verdicts, resets, lastVerdict,
                   reportId, formData, reports, uploaded, droppedNotReady, respData,
                   scannerCells, policyVars, listVars, stored, qrValue, qrSeen, qrFresh>>

Step(s) ==
    \/ CaptureDone(s)
    \/ LocateDone(s)
    \/ GeocodeDone(s)
    \/ GetUserDone(s)
    \/ ReadFileDone(s)
    \/ StorageUploadDone(s)
    \/ InsertDone(s)
    \/ FetchDone(s)
    \/ JsonDone(s)

Next ==
    \/ OnCameraReady
    \/ TakePicture
    \/ TakePictureIgnored
    \/ cancelUpload
    \/ CloseModal
    \/ \E s \in Calls : Step(s)

Spec == Init /\ [][Next]_vars

\* The screen with the contents of the storage bucket followed.
\* uploadToSupabase: await supabase.storage.from("reports").upload(...)
Bucket_StorageUploadDone(s) ==
    /\ pc[s] = "storageUpload"
    /\ \/ StorageUploaded(s)
       \/ StartAnalysis(s, None)

Bucket_Step(s) ==
    \/ CaptureDone(s)
    \/ LocateDone(s)
    \/ GeocodeDone(s)
    \/ GetUserDone(s)
    \/ ReadFileDone(s)
    \/ Bucket_StorageUploadDone(s)
    \/ InsertDone(s)
    \/ FetchDone(s)
    \/ JsonDone(s)

Bucket_Next ==
    \/ OnCameraReady
    \/ TakePicture
    \/ TakePictureIgnored
    \/ cancelUpload
    \/ CloseModal
    \/ \E s \in Calls : Bucket_Step(s)

BucketSpec == Init /\ [][Bucket_Next]_vars

\* The screen against a service that may answer with any status string.
OpenStep(s) ==
    \/ CaptureDone(s)
    \/ LocateDone(s)
    \/ GeocodeDone(s)
    \/ GetUserDone(s)
    \/ ReadFileDone(s)
    \/ StorageUploadDone(s)
    \/ InsertDone(s)
    \/ FetchDone(s)
    \/ JsonDoneIn(s, OpenReplies)

OpenNext ==
    \/ OnCameraReady
    \/ TakePicture
    \/ TakePictureIgnored
    \/ cancelUpload
    \/ CloseModal
    \/ \E s \in Calls : OpenStep(s)

OpenSpec == Init /\ [][OpenNext]_vars

\* Awaited external operations eventually return or fail: while some call is
\* suspended at an await, some pending operation eventually completes.
FairSpec == Spec /\ WF_vars(\E s \in Calls : Step(s))

\* ====================================================================
\* The QR scanner of the same screen.  Spec above is the screen with no QR
\* code in view and every sampled reply of the service; ScanSpec is the
\* screen with the detection events of the camera, in front of a service
\* that answers "found" or "missing".
\* ====================================================================
\* onBarCodeScanned({ data: c }): if (!scanEnabled) return; otherwise the
\* gate closes, the value is stored, the popup shows and the 3 s timer starts
OnBarCodeScanned(c) ==
    /\ \/ /\ ~scanEnabled
          /\ UNCHANGED <<scanEnabled, qrValue, scanModalVisible, scanWindow, qrFresh,
                         scannedInFlight>>
       \/ /\ scanEnabled
          /\ scanEnabled' = FALSE
          /\ qrValue' = Some(c)
          /\ scanModalVisible' = TRUE
          /\ scanWindow' = TRUE
          /\ scannedInFlight' = (InFlight # {})
          /\ qrFresh' = TRUE
    /\ UNCHANGED <<isCameraReady, isUploading, abortController, resultModalVisible,
                   resultData, nCalls, pc, coords, supabaseUrl, aborted, reportId, formData,
                   reports, verdicts, resets, lastVerdict, uploaded, droppedNotReady,
                   respData, qrSeen, policyVars, listVars, stored>>

\* the setTimeout callback, 3000 ms after an accepted detection
ScanTimeout ==
    /\ scanWindow
    /\ scanModalVisible' = FALSE
    /\ scanEnabled' = TRUE
    /\ scanWindow' = FALSE
    /\ UNCHANGED <<isCameraReady, isUploading, abortController, resultModalVisible,
                   resultData, nCalls, pc, coords, supabaseUrl, aborted, reportId, formData,
                   reports, verdicts, resets, lastVerdict, uploaded, droppedNotReady,
                   respData, qrValue, qrSeen, qrFresh, scannedInFlight, policyVars, listVars, stored>>

\* the two bodies of a service that looks for the code: found, missing
ScanReplies ==
    {[status |-> Some("success"), message |-> Some(<<QR_FOUND>>)],
     [status |-> Some("violation"), message |-> Some(<<"Missing QR">>)]}

ScanStep(s) ==
    \/ CaptureDone(s)
    \/ LocateDone(s)
    \/ GeocodeDone(s)
    \/ GetUserDone(s)
    \/ ReadFileDone(s)
    \/ StorageUploadDone(s)
    \/ InsertDone(s)
    \/ FetchDone(s)
    \/ JsonDoneIn(s, ScanReplies)

ScanNext ==
    \/ OnCameraReady
    \/ TakePicture
    \/ TakePictureIgnored
    \/ cancelUpload
    \/ CloseModal
    \/ \E s \in Calls : ScanStep(s)
    \/ \E c \in Codes : OnBarCodeScanned(c)
    \/ ScanTimeout

ScanSpec == Init /\ [][ScanNext]_vars

\* ====================================================================
\* The CameraScreen of src/unnamed/part_003: the analysis call is made
\* first, with the local photo URI, and the photo is stored afterwards;
\* the location is read from the cache first; no geofence; the finalizer
\* clears the flag from a timer.  The guard of takePicture, cancelUpload
\* and the modal are the same code as above.
\* ====================================================================
PHOTO_URI == "photo.uri"

\* status: data?.status || (supabaseUrl ? "success" : "error"),
\* message: data?.message || (supabaseUrl ? "Report stored in Supabase" : "Upload failed")
AnalyzeFirst_Verdict(d, url) ==
    [status |-> IF Truthy(serverStatusOf(d)) THEN Get(serverStatusOf(d))
                ELSE IF IsSome(url) THEN "success" ELSE "error",
     message |-> IF IsSome(serverMessageOf(d)) THEN Get(serverMessageOf(d))
                 ELSE IF IsSome(url) THEN STORED_MSG ELSE UPLOAD_FAILED_MSG]

\* finally { setAbortController(null); setTimeout(() => setIsUploading(false), 1000) }
\* and the return of call s; the timer is pending
AnalyzeFirst_Finally(s) ==
    /\ abortController' = None
    /\ pc' = [pc EXCEPT ![s] = "flagTimer"]
    /\ coords' = [coords EXCEPT ![s] = SentinelCoords]
    /\ supabaseUrl' = [supabaseUrl EXCEPT ![s] = None]
    /\ formData' = [formData EXCEPT ![s] = None]
    /\ uploaded' = [uploaded EXCEPT ![s] = FALSE]
    /\ respData' = [respData EXCEPT ![s] = None]
    /\ UNCHANGED <<isCameraReady, isUploading, nCalls, aborted, reportId, resets,
                   droppedNotReady,
                   scannerCells, policyVars, listVars, stored, qrValue, qrSeen, qrFresh>>

\* catch (err) of takePicture, then the finalizer
AnalyzeFirst_CatchOuter(s, errName) ==
    /\ IF errName = "AbortError"
       THEN UNCHANGED <<resultData, resultModalVisible, verdicts, lastVerdict>>
       ELSE Emit(s, [status |-> "error", message |-> CAUGHT_MSG,
                     supabaseUrl |-> None, coords |-> None],
                 [caught |-> TRUE, data |-> None, prelim |-> "pending", url |-> None])
    /\ AnalyzeFirst_Finally(s)
    /\ UNCHANGED reports

\* uploadToSupabase returned `url` (set after a successful insert of a row
\* with status "pending", null on any failure); setResultData; finally
AnalyzeFirst_Resolve(s, url) ==
    LET v == AnalyzeFirst_Verdict(respData[s], url)
    IN  /\ reports' = IF IsSome(url)
                      THEN reports \cup {[id |-> s, status |-> "pending", message |-> None]}
                      ELSE reports
        /\ Emit(s, [status |-> v.status, message |-> v.message,
                    supabaseUrl |-> url, coords |-> Some(coords[s])],
                [caught |-> FALSE, data |-> respData[s], prelim |-> "pending", url |-> url])
        /\ AnalyzeFirst_Finally(s)

\* onCameraReady: if (isUploading) return; setIsCameraReady(true)
AnalyzeFirst_OnCameraReady ==
    /\ ~isUploading
    /\ OnCameraReady

\* await cameraRef.current.takePictureAsync()
AnalyzeFirst_CaptureDone(s) ==
    /\ pc[s] = "capture"
    /\ \/ Goto(s, "lastKnown")
       \/ AnalyzeFirst_CatchOuter(s, "Error")

\* await Location.getLastKnownPositionAsync() inside the location try/catch:
\* a cached fix, null (then getCurrentPositionAsync is called), or a throw
AnalyzeFirst_LastKnownDone(s) ==
    /\ pc[s] = "lastKnown"
    /\ \/ /\ \E p \in Positions : coords' = [coords EXCEPT ![s] = p]
          /\ pc' = [pc EXCEPT ![s] = "geocode"]
       \/ /\ coords' = coords
          /\ pc' = [pc EXCEPT ![s] = "locate"]
       \/ /\ coords' = coords
          /\ pc' = [pc EXCEPT ![s] = "geocode"]
    /\ UNCHANGED <<isCameraReady, isUploading, abortController, resultModalVisible,
                   resultData, nCalls, supabaseUrl, aborted, verdicts, resets, lastVerdict,
                   reportId, formData, reports, uploaded, droppedNotReady, respData,
                   scannerCells, policyVars, listVars, stored, qrValue, qrSeen, qrFresh>>

\* await Location.reverseGeocodeAsync(coords) inside its own try/catch; new
\* AbortController, setAbortController(controller), the form with
\* image_url = photo.uri, fetch with the controller's signal
AnalyzeFirst_GeocodeDone(s) ==
    /\ pc[s] = "geocode"
    /\ abortController' = Some(s)
    /\ aborted' = [aborted EXCEPT ![s] = FALSE]
    /\ formData' = [formData EXCEPT ![s] = Some([image_url |-> PHOTO_URI, report_id |-> None])]
    /\ pc' = [pc EXCEPT ![s] = "fetch"]
    /\ UNCHANGED <<isCameraReady, isUploading, resultModalVisible, resultData, nCalls,
                   coords, supabaseUrl, verdicts, resets, lastVerdict, reportId, reports,
                   uploaded, droppedNotReady, respData,
                   scannerCells, policyVars, listVars, stored, qrValue, qrSeen, qrFresh>>

\* await fetch(..., signal), not inside any inner try: a response, a
\* network failure, or the AbortError of an aborted request
AnalyzeFirst_FetchDone(s) ==
    /\ pc[s] = "fetch"
    /\ \/ ~aborted[s] /\ Goto(s, "json")
       \/ ~aborted[s] /\ AnalyzeFirst_CatchOuter(s, "Error")
       \/ aborted[s] /\ AnalyzeFirst_CatchOuter(s, "AbortError")

\* const data = await res.json(): the parsed body, a parse error, or the
\* AbortError of an aborted body read; then uploadToSupabase starts
AnalyzeFirst_JsonDone(s) ==
    /\ pc[s] = "json"
    /\ \/ /\ \E r \in Replies : respData' = [respData EXCEPT ![s] = Some(r)]
          /\ pc' = [pc EXCEPT ![s] = "readFile"]
          /\ UNCHANGED <<isCameraReady, isUploading, abortController, resultModalVisible,
                         resultData, nCalls, coords, supabaseUrl, aborted, verdicts, resets,
                         lastVerdict, reportId, formData, reports, uploaded, droppedNotReady,
                   scannerCells, policyVars, listVars, stored, qrValue, qrSeen, qrFresh>>
       \/ AnalyzeFirst_CatchOuter(s, "Error")
       \/ aborted[s] /\ AnalyzeFirst_CatchOuter(s, "AbortError")

\* uploadToSupabase: await FileSystem.readAsStringAsync(...)
AnalyzeFirst_ReadFileDone(s) ==
    /\ pc[s] = "readFile"
    /\ \/ Goto(s, "storageUpload")
       \/ AnalyzeFirst_Resolve(s, None)

\* uploadToSupabase: await supabase.storage.from("reports").upload(...)
AnalyzeFirst_StorageUploadDone(s) ==
    /\ pc[s] = "storageUpload"
    /\ \/ Goto(s, "insert")
       \/ AnalyzeFirst_Resolve(s, None)

\* uploadToSupabase: await supabase.from("reports").insert([...])
AnalyzeFirst_InsertDone(s) ==
    /\ pc[s] = "insert"
    /\ \/ AnalyzeFirst_Resolve(s, Some("publicUrl"))
       \/ AnalyzeFirst_Resolve(s, None)

\* the timer of the finalizer fires: setIsUploading(false)
AnalyzeFirst_FlagTimeout(s) ==
    /\ pc[s] = "flagTimer"
    /\ isUploading' = FALSE
    /\ pc' = [pc EXCEPT ![s] = "done"]
    /\ UNCHANGED <<isCameraReady, abortController, resultModalVisible, resultData, nCalls,
                   coords, supabaseUrl, aborted, verdicts, resets, lastVerdict, reportId,
                   formData, reports, uploaded, droppedNotReady, respData,
                   scannerCells, policyVars, listVars, stored, qrValue, qrSeen, qrFresh>>

AnalyzeFirst_Step(s) ==
    \/ AnalyzeFirst_CaptureDone(s)
    \/ AnalyzeFirst_LastKnownDone(s)
    \/ LocateDone(s)
    \/ AnalyzeFirst_GeocodeDone(s)
    \/ AnalyzeFirst_FetchDone(s)
    \/ AnalyzeFirst_JsonDone(s)
    \/ AnalyzeFirst_ReadFileDone(s)
    \/ AnalyzeFirst_StorageUploadDone(s)
    \/ AnalyzeFirst_InsertDone(s)
    \/ AnalyzeFirst_FlagTimeout(s)

AnalyzeFirst_Next ==
    \/ AnalyzeFirst_OnCameraReady
    \/ TakePicture
    \/ TakePictureIgnored
    \/ cancelUpload
    \/ CloseModal
    \/ \E s \in Calls : AnalyzeFirst_Step(s)

AnalyzeFirst_Spec == Init /\ [][AnalyzeFirst_Next]_vars

\* ====================================================================
\* The CameraScreen of src/unnamed/part_001: capture, location, geocoding,
\* analysis call with the photo file; no storage, no geofence, no cancel.
\* The guard of takePicture and the modal are the same code as above,
\* onCameraReady and the flag timer the same as in part_003.
\* ====================================================================
\* finally { setTimeout(() => setIsUploading(false), 2000) } and the return
\* of call s; the timer is pending
Basic_Finally(s) ==
    /\ pc' = [pc EXCEPT ![s] = "flagTimer"]
    /\ coords' = [coords EXCEPT ![s] = SentinelCoords]
    /\ UNCHANGED <<isCameraReady, isUploading, abortController, nCalls, supabaseUrl,
                   aborted, reportId, formData, reports, resets, uploaded,
                   droppedNotReady, respData,
                   scannerCells, policyVars, listVars, stored, qrValue, qrSeen, qrFresh>>

\* catch (err) of takePicture: the error verdict; then the finalizer
Basic_CatchOuter(s) ==
    /\ Emit(s, [status |-> "error", message |-> CAUGHT_MSG,
                supabaseUrl |-> None, coords |-> None],
            [caught |-> TRUE, data |-> None, prelim |-> "pending", url |-> None])
    /\ Basic_Finally(s)

\* await cameraRef.current.takePictureAsync()
Basic_CaptureDone(s) ==
    /\ pc[s] = "capture"
    /\ \/ Goto(s, "locate")
       \/ Basic_CatchOuter(s)

\* await Location.getCurrentPositionAsync(...), directly in the outer try
Basic_LocateDone(s) ==
    /\ pc[s] = "locate"
    /\ \/ /\ \E p \in Positions : coords' = [coords EXCEPT ![s] = p]
          /\ pc' = [pc EXCEPT ![s] = "geocode"]
          /\ UNCHANGED <<isCameraReady, isUploading, abortController, resultModalVisible,
                         resultData, nCalls, supabaseUrl, aborted, verdicts, resets,
                         lastVerdict, reportId, formData, reports, uploaded,
                         droppedNotReady, respData,
                   scannerCells, policyVars, listVars, stored, qrValue, qrSeen, qrFresh>>
       \/ Basic_CatchOuter(s)

\* await Location.reverseGeocodeAsync(coords) inside its own try/catch; the
\* form with the photo file, lat, lon; fetch is called
Basic_GeocodeDone(s) ==
    /\ pc[s] = "geocode"
    /\ Goto(s, "fetch")

\* await fetch(`${API_BASE_URL}/analyze`, ...)
Basic_FetchDone(s) ==
    /\ pc[s] = "fetch"
    /\ \/ Goto(s, "json")
       \/ Basic_CatchOuter(s)

\* const data = await res.json(); setResultData({ ...data, photoUri, address });
\* status and message are the reply's, present or absent
Basic_JsonDone(s) ==
    /\ pc[s] = "json"
    /\ \/ /\ \E r \in Replies :
               Emit(s, [status |-> r.status, message |-> r.message,
                        supabaseUrl |-> None, coords |-> None],
                    [caught |-> FALSE, data |-> Some(r), prelim |-> "pending", url |-> None])
          /\ Basic_Finally(s)
       \/ Basic_CatchOuter(s)

Basic_Step(s) ==
    \/ Basic_CaptureDone(s)
    \/ Basic_LocateDone(s)
    \/ Basic_GeocodeDone(s)
    \/ Basic_FetchDone(s)
    \/ Basic_JsonDone(s)
    \/ AnalyzeFirst_FlagTimeout(s)

Basic_Next ==
    \/ AnalyzeFirst_OnCameraReady
    \/ TakePicture
    \/ TakePictureIgnored
    \/ CloseModal
    \/ \E s \in Calls : Basic_Step(s)

Basic_Spec == Init /\ [][Basic_Next]_vars

\* ====================================================================
\* The CameraScreen with the time window (part_005, second screen): its
\* local checks, applied to drawn inputs, and its scanner.
\* ====================================================================
Timed_GEOFENCE_RADIUS_M == 150

\* new Date(WINDOW_START_ISO), new Date(WINDOW_END_ISO): 08:00:00Z and
\* 18:00:00Z of 2025-08-22, in milliseconds since the start of that day
WINDOW_START_ISO == 28800000
WINDOW_END_ISO == 64800000

TimeReason == <<"Outside allowed time">>

\* distances to the center in centimeters, around both radii
DistSamples == {0, 14999, 15000, 15001, 149999, 150000, 150001, 957212200}
\* the two configured radii of the repository, in centimeters
RadiusSamples == {Timed_GEOFENCE_RADIUS_M * 100, GEOFENCE_RADIUS_M * 100}
\* instants of 2025-08-22 around both ends of the window
NowSamples == {0, 28799999, 28800000, 28800001, 64799999, 64800000, 64800001}

checkTimeWindow_EndExclusive(now) ==
    IF now >= WINDOW_START_ISO /\ now < WINDOW_END_ISO
    THEN [ok |-> TRUE, reason |-> None]
    ELSE [ok |-> FALSE, reason |-> Some(TimeReason)]

checkTimeWindow(now) ==
    IF now >= WINDOW_START_ISO /\ now <= WINDOW_END_ISO
    THEN [ok |-> TRUE, reason |-> None]
    ELSE [ok |-> FALSE, reason |-> Some(TimeReason)]

Timed_preliminary_TimeFirst(geo, tw) ==
    IF ~tw.ok THEN [status |-> "violation", message |-> Some(TimeReason)]
    ELSE IF ~geo.ok THEN [status |-> "violation", message |-> Some(ZoneReason)]
    ELSE [status |-> "pending", message |-> None]

\* lines 384-387: the conditional chain over geo and tw
Timed_preliminary(geo, tw) ==
    IF ~geo.ok THEN [status |-> "violation", message |-> Some(ZoneReason)]
    ELSE IF ~tw.ok THEN [status |-> "violation", message |-> Some(TimeReason)]
    ELSE [status |-> "pending", message |-> None]

\* step 4 of takePicture, the local quick checks, for a distance of the
\* device to the center, a configured radius and a clock reading
Timed_LocalChecks ==
    /\ \E d \in DistSamples, radius \in RadiusSamples, now \in NowSamples :
         /\ distIn' = d
         /\ nowIn' = now
         /\ policyOut' =
              LET geo == geofenceDecision(d, radius)
                  tw == checkTimeWindow(now)
              IN  Some([radius |-> radius, geo |-> geo, tw |-> tw,
                        preliminary |-> Timed_preliminary(geo, tw)])
    /\ UNCHANGED <<isCameraReady, isUploading, abortController, resultModalVisible,
                   resultData, nCalls, pc, coords, supabaseUrl, aborted, reportId, formData,
                   reports, verdicts, resets, lastVerdict, uploaded, droppedNotReady,
                   respData, scannerCells, qrValue, qrSeen, qrFresh, stored, listVars>>

\* lines 247-250: every detection event is stored. scanWindow: less than
\* 3 seconds have passed since a detection was accepted.
Timed_OnBarCodeScanned(c) ==
    /\ qrValue' = Some(c)
    /\ scanWindow' = TRUE
    /\ qrFresh' = TRUE
    /\ scannedInFlight' = (InFlight # {})
    /\ UNCHANGED <<isCameraReady, isUploading, abortController, resultModalVisible,
                   resultData, nCalls, pc, coords, supabaseUrl, aborted, reportId, formData,
                   reports, verdicts, resets, lastVerdict, uploaded, droppedNotReady,
                   respData, scanEnabled, scanModalVisible, qrSeen, policyVars, listVars, stored>>

\* 3 seconds pass without a detection
Timed_WindowElapsed ==
    /\ scanWindow
    /\ scanWindow' = FALSE
    /\ UNCHANGED <<isCameraReady, isUploading, abortController, resultModalVisible,
                   resultData, nCalls, pc, coords, supabaseUrl, aborted, reportId, formData,
                   reports, verdicts, resets, lastVerdict, uploaded, droppedNotReady,
                   respData, scanEnabled, scanModalVisible, qrValue, qrSeen, qrFresh,
                   scannedInFlight, policyVars, listVars, stored>>

Timed_Next ==
    \/ Timed_LocalChecks
    \/ \E c \in Codes : Timed_OnBarCodeScanned(c)
    \/ Timed_WindowElapsed

Timed_Spec == Init /\ [][Timed_Next]_vars

\* ====================================================================
\* The result modal (part_002:355-370)
\* ====================================================================
INVALID_QR == "Invalid QR format"

\* the titles, without their leading emoji
NO_ISSUES_TITLE == "No Issues Detected"
INVALID_IMAGE_TITLE == "Invalid Image"
VIOLATION_TITLE == "Violation Detected"

\* the title expression of the modal, over the resultData cell
ModalTitle(rd) ==
    IF IsSome(rd) /\ Includes(Get(rd).message, INVALID_QR) THEN NO_ISSUES_TITLE
    ELSE IF IsSome(rd) /\ Includes(Get(rd).message, NO_BILLBOARD) THEN INVALID_IMAGE_TITLE
    ELSE VIOLATION_TITLE

\* ====================================================================
\* The Reports screen (src/screens/ReportScreen.tsx)
\* ====================================================================
PAGE_SIZE == 12

\* bounds: the highest page a loadMore may ask for, the onRefresh calls
\* and the loadMore calls that may await their page at the same time
MaxPage == 3
MaxRefresh == 2
MaxMore == 2

\* data.length of a fetched page: empty, short, full
Lengths == {0, 5, PAGE_SIZE}

cameraVars == <<isCameraReady, isUploading, abortController, resultModalVisible, resultData,
                nCalls, pc, coords, supabaseUrl, aborted, reportId, formData, reports,
                verdicts, resets, lastVerdict, uploaded, droppedNotReady, respData,
                scanEnabled, qrValue, scanModalVisible, scanWindow, qrSeen, qrFresh,
                scannedInFlight, distIn, nowIn, policyOut, stored>>

\* fetchPage(pageIndex): the range it asks for, and what it hands back when
\* the table answers with n rows of that range
fetchRange(pageIndex) ==
    [from |-> pageIndex * PAGE_SIZE, to |-> pageIndex * PAGE_SIZE + PAGE_SIZE - 1]
fetchPage(pageIndex, n) == [from |-> fetchRange(pageIndex).from, n |-> n]

\* reports.length
ListLength == IF listed = <<>> THEN 0
              ELSE LET sum[i \in 0..Len(listed)] ==
                           IF i = 0 THEN 0 ELSE sum[i - 1] + listed[i].n
                   IN  sum[Len(listed)]

\* the FlatList is on screen (neither the spinner nor "No reports submitted
\* yet."): only then can the user pull to refresh or reach the end
ListRendered == ListLength > 0

Returned(op, ok, n) == [op |-> op, ok |-> ok, n |-> n, tick |-> ~lastFetch.tick]

RemoveAt(seq, i) == SubSeq(seq, 1, i - 1) \o SubSeq(seq, i + 1, Len(seq))

\* loadInitial, from its await to its return (the effect starts it at mount)
LoadInitialDone ==
    /\ initCall = "fetch"
    /\ initCall' = "done"
    /\ loading' = FALSE
    /\ \/ \E n \in Lengths :
            /\ listed' = <<fetchPage(0, n)>>
            /\ page' = 0
            /\ endReached' = (n < PAGE_SIZE)
            /\ lastFetch' = Returned("initial", TRUE, n)
       \/ /\ lastFetch' = Returned("initial", FALSE, 0)
          /\ UNCHANGED <<listed, page, endReached>>
    /\ UNCHANGED <<refreshing, loadingMoreRef, refreshCalls, moreCalls, cameraVars>>

\* onRefresh, up to its await
OnRefresh ==
    /\ ListRendered
    /\ refreshCalls < MaxRefresh
    /\ refreshing' = TRUE
    /\ refreshCalls' = refreshCalls + 1
    /\ UNCHANGED <<listed, loading, page, endReached, loadingMoreRef, initCall,
                   moreCalls, lastFetch, cameraVars>>

\* onRefresh, from its await to its return
OnRefreshDone ==
    /\ refreshCalls > 0
    /\ refreshCalls' = refreshCalls - 1
    /\ refreshing' = FALSE
    /\ \/ \E n \in Lengths :
            /\ listed' = <<fetchPage(0, n)>>
            /\ page' = 0
            /\ endReached' = (n < PAGE_SIZE)
            /\ lastFetch' = Returned("refresh", TRUE, n)
       \/ /\ lastFetch' = Returned("refresh", FALSE, 0)
          /\ UNCHANGED <<listed, page, endReached>>
    /\ UNCHANGED <<loading, loadingMoreRef, initCall, moreCalls, cameraVars>>

LoadMore_NoRefGuard ==
    /\ ListRendered
    /\ ~(endReached \/ loading)
    /\ page < MaxPage /\ Len(moreCalls) < MaxMore
    /\ loadingMoreRef' = TRUE
    /\ moreCalls' = Append(moreCalls, page + 1)
    /\ UNCHANGED <<listed, loading, refreshing, page, endReached, initCall,
                   refreshCalls, lastFetch, cameraVars>>

\* loadMore past its guard, up to its await
LoadMore ==
    /\ ListRendered
    /\ ~(loadingMoreRef \/ endReached \/ loading)
    /\ page < MaxPage /\ Len(moreCalls) < MaxMore
    /\ loadingMoreRef' = TRUE
    /\ moreCalls' = Append(moreCalls, page + 1)
    /\ UNCHANGED <<listed, loading, refreshing, page, endReached, initCall,
                   refreshCalls, lastFetch, cameraVars>>

\* loadMore returning at its guard
LoadMoreIgnored ==
    /\ ListRendered
    /\ loadingMoreRef \/ endReached \/ loading
    /\ UNCHANGED <<listVars, cameraVars>>

LoadMoreDone_NeverEnds ==
    \E i \in DOMAIN moreCalls :
        /\ moreCalls' = RemoveAt(moreCalls, i)
        /\ loadingMoreRef' = FALSE
        /\ \/ \E n \in Lengths :
                /\ listed' = Append(listed, fetchPage(moreCalls[i], n))
                /\ page' = moreCalls[i]
                /\ endReached' = endReached
                /\ lastFetch' = Returned("more", TRUE, n)
           \/ /\ lastFetch' = Returned("more", FALSE, 0)
              /\ UNCHANGED <<listed, page, endReached>>
        /\ UNCHANGED <<loading, refreshing, initCall, refreshCalls, cameraVars>>

LoadMoreDone_KeepsGuard ==
    \E i \in DOMAIN moreCalls :
        /\ moreCalls' = RemoveAt(moreCalls, i)
        /\ \/ \E n \in Lengths :
                /\ listed' = Append(listed, fetchPage(moreCalls[i], n))
                /\ page' = moreCalls[i]
                /\ endReached' = (endReached \/ n < PAGE_SIZE)
                /\ loadingMoreRef' = FALSE
                /\ lastFetch' = Returned("more", TRUE, n)
           \/ /\ lastFetch' = Returned("more", FALSE, 0)
              /\ UNCHANGED <<listed, page, endReached, loadingMoreRef>>
        /\ UNCHANGED <<loading, refreshing, initCall, refreshCalls, cameraVars>>

\* loadMore, from its await to its return
LoadMoreDone ==
    \E i \in DOMAIN moreCalls :
        /\ moreCalls' = RemoveAt(moreCalls, i)
        /\ loadingMoreRef' = FALSE
        /\ \/ \E n \in Lengths :
                /\ listed' = Append(listed, fetchPage(moreCalls[i], n))
                /\ page' = moreCalls[i]
                /\ endReached' = (endReached \/ n < PAGE_SIZE)
                /\ lastFetch' = Returned("more", TRUE, n)
           \/ /\ lastFetch' = Returned("more", FALSE, 0)
              /\ UNCHANGED <<listed, page, endReached>>
        /\ UNCHANGED <<loading, refreshing, initCall, refreshCalls, cameraVars>>

ReportsNext ==
    \/ LoadInitialDone
    \/ OnRefresh
    \/ OnRefreshDone
    \/ LoadMore
    \/ LoadMoreIgnored
    \/ LoadMoreDone

ReportsSpec == Init /\ [][ReportsNext]_vars

\* ====================================================================
\* Properties
\* ====================================================================
Analyzing(s) == pc[s] \in {"fetch", "json"}

\* The last verdict came out of the reconciliation (not the outer catch).
Reconciled == IsSome(lastVerdict) /\ ~Get(lastVerdict).caught
LastData == Get(lastVerdict).data
LastReply == Get(LastData)
Final == Get(resultData)

\* The analysis call of the last verdict threw (network failure, abort, bad body).
RemoteFailed == Reconciled /\ ~IsSome(LastData)
\* The reply of the last verdict matches rule (a): success marker, no no-target marker.
MarkerReply ==
    /\ Reconciled /\ IsSome(LastData) /\ IsSome(LastReply.message)
    /\ Includes(Get(LastReply.message), QR_FOUND)
    /\ ~Includes(Get(LastReply.message), NO_BILLBOARD)
CannedFor(status) == IF status = "success" THEN STORED_MSG ELSE VIOLATION_MSG

\* C1: at most one submission is in flight at any moment (a takePicture
\* accepted while an earlier accepted call has not run its finalizer would
\* make two).
C1_AtMostOneInFlight == Cardinality(InFlight) <= 1

\* C2: a submission whose analysis call was aborted by cancelUpload never
\* produces a result (no setResultData by that call).
C2_CancelSuppressesVerdict == \A s \in Calls : aborted[s] => verdicts[s] = 0

\* C3: after cancelUpload during the analysis step the flag is clear, it is
\* set again only by a takePicture, and a takePicture issued right then is
\* accepted and is the only submission in flight.
C3_CancelThenSubmitIsSingle ==
    [][ /\ (\E s \in Calls : Analyzing(s) /\ ~aborted[s] /\ aborted'[s]) => ~isUploading'
        /\ (~isUploading /\ isUploading') => nCalls' = nCalls + 1
        /\ ((\E s \in Calls : Analyzing(s) /\ aborted[s]) /\ ~isUploading
              /\ nCalls' = nCalls + 1)
           => InFlight' = {nCalls'} ]_vars

\* C4: the flag is reset exactly once per accepted submission: a finished
\* call has seen exactly one setIsUploading(false) between its acceptance
\* and its return, and no call ever sees two.
C4_ResetExactlyOnce ==
    \A s \in Calls : /\ pc[s] = "done" => resets[s] = 1
                     /\ resets[s] <= 1

\* C5: every accepted submission eventually returns with the flag cleared,
\* and a set flag never stays set forever (given that every awaited
\* operation eventually returns or fails).
C5_FlagEventuallyCleared ==
    /\ \A s \in Calls : Running(s) ~> (pc[s] = "done" /\ ~isUploading)
    /\ isUploading ~> ~isUploading

\* a call that was cancelled during analysis has returned and the flag is clear
C5_Witness == \E s \in Calls : pc[s] = "done" /\ aborted[s] /\ ~isUploading

\* C6: rule (a): a reply whose message has the success marker and not the
\* no-target marker yields status success and the reply's message verbatim,
\* whatever the reply's status, the preliminary and the upload outcome.
C6_RuleA ==
    MarkerReply => /\ Final.status = "success"
                   /\ Final.message = Get(LastReply.message)

\* rule (a) overrode a remote violation, a local violation and a failed upload
C6_Witness ==
    /\ MarkerReply
    /\ LastReply.status = Some("violation")
    /\ Get(lastVerdict).prelim = "violation"
    /\ ~IsSome(Get(lastVerdict).url)

\* C7 as stated: when rule (a) does not apply and the reply carries any
\* status, the final status is that status and the final message is the
\* reply's message if present, else the canned message for that status.
C7_RuleB_AnyStatus ==
    (Reconciled /\ IsSome(LastData) /\ ~MarkerReply /\ IsSome(LastReply.status))
    => /\ Final.status = Get(LastReply.status)
       /\ Final.message = OrElse(LastReply.message, CannedFor(Get(LastReply.status)))

\* C7 amended: the same for a reply that carries a non-empty status.
C7_RuleB ==
    (Reconciled /\ IsSome(LastData) /\ ~MarkerReply /\ IsSome(LastReply.status)
       /\ Get(LastReply.status) # "")
    => /\ Final.status = Get(LastReply.status)
       /\ Final.message = OrElse(LastReply.message, CannedFor(Get(LastReply.status)))

\* upload succeeded, reply {violation, "Missing QR"}: verdict {violation, "Missing QR"}
C7_Witness ==
    /\ Reconciled /\ IsSome(LastData)
    /\ LastReply = [status |-> Some("violation"), message |-> Some(<<"Missing QR">>)]
    /\ IsSome(Get(lastVerdict).url)
    /\ Final.status = "violation" /\ Final.message = <<"Missing QR">>

\* C8: a reply with status success yields final status success, also when
\* the local policy check failed and whatever the upload outcome.
C8_RemoteSuccessWins ==
    (Reconciled /\ IsSome(LastData) /\ LastReply.status = Some("success"))
    => Final.status = "success"

\* remote success over a local violation, no success marker, upload failed
C8_Witness ==
    /\ Reconciled /\ IsSome(LastData) /\ LastReply.status = Some("success")
    /\ ~MarkerReply
    /\ Get(lastVerdict).prelim = "violation"
    /\ ~IsSome(Get(lastVerdict).url)
    /\ Final.status = "success"

\* C9 as stated: local policy failed and the analysis call failed or its
\* reply has no status: final status violation with the local reason.
C9_LocalViolation_NoStatus ==
    (Reconciled /\ Get(lastVerdict).prelim = "violation"
       /\ (RemoteFailed \/ ~IsSome(LastReply.status)))
    => /\ Final.status = "violation"
       /\ Final.message = ZoneReason

\* C9 amended: ... or its reply has no status and does not match rule (a).
C9_LocalViolation ==
    (Reconciled /\ Get(lastVerdict).prelim = "violation"
       /\ (RemoteFailed \/ (~IsSome(LastReply.status) /\ ~MarkerReply)))
    => /\ Final.status = "violation"
       /\ Final.message = ZoneReason

\* local violation kept after a failed analysis call although the upload succeeded
C9_Witness ==
    /\ RemoteFailed
    /\ Get(lastVerdict).prelim = "violation"
    /\ IsSome(Get(lastVerdict).url)
    /\ Final.status = "violation"

EmptyReply ==
    /\ Reconciled /\ IsSome(LastData)
    /\ ~IsSome(LastReply.status) /\ ~IsSome(LastReply.message)

\* C11: rule (c) with a passing local policy: the analysis call failed or
\* returned nothing: final is success with the "stored" message if the
\* artifact URL is non-null, error with "Upload failed" if it is null.
C11_RuleC_LocalPass ==
    (Reconciled /\ Get(lastVerdict).prelim = "pending" /\ (RemoteFailed \/ EmptyReply))
    => IF IsSome(Get(lastVerdict).url)
       THEN Final.status = "success" /\ Final.message = STORED_MSG
       ELSE Final.status = "error" /\ Final.message = UPLOAD_FAILED_MSG

\* empty reply, local policy passed, artifact stored: {success, "Report stored..."}
C11_Witness ==
    /\ EmptyReply
    /\ Get(lastVerdict).prelim = "pending"
    /\ IsSome(Get(lastVerdict).url)
    /\ Final.status = "success" /\ Final.message = STORED_MSG

\* C12: a verdict is constructed exactly once per submission: no call ever
\* makes two setResultData calls (the reconciliation verdict and the
\* catch-branch verdict exclude each other), and a call that has returned
\* and was not cancelled has made exactly one.
C12_VerdictExactlyOnce ==
    \A s \in Calls : /\ verdicts[s] <= 1
                     /\ (pc[s] = "done" /\ ~aborted[s]) => verdicts[s] = 1

\* every call of the run has returned, none was cancelled, each made one verdict
C12_Witness ==
    \A s \in Calls : pc[s] = "done" /\ ~aborted[s] /\ verdicts[s] = 1

\* C13: no failure of a step escapes takePicture: the step on which a call
\* returns, whatever failed on the way, has run the finalizer (flag idle)
\* and leaves the call with exactly one verdict or, after a cancellation,
\* with none.
C13_NoFailureEscapes ==
    [][ \A s \in Calls :
          (Running(s) /\ pc'[s] = "done")
          => /\ ~isUploading'
             /\ \/ verdicts'[s] = 1
                \/ aborted[s] /\ verdicts'[s] = 0 ]_vars

\* a call returned through the outer catch: flag idle, the error verdict shown
C13_Witness ==
    /\ IsSome(lastVerdict) /\ Get(lastVerdict).caught
    /\ ~isUploading
    /\ Final.status = "error" /\ Final.message = CAUGHT_MSG
    /\ \E s \in Calls : pc[s] = "done" /\ verdicts[s] = 1

\* C14: upload precedes the analysis call: whenever the analysis request of
\* a call exists (its form is built, the request is issued), the upload and
\* insert attempt of that call has returned, and the request carries the
\* artifact reference that attempt returned.
C14_UploadPrecedesAnalysis ==
    \A s \in Calls :
        IsSome(formData[s])
        => /\ uploaded[s]
           /\ Get(formData[s]).image_url = OrElse(supabaseUrl[s], "")

UploadSteps == {"readFile", "storageUpload", "insert"}

\* C15: a storage failure is not fatal: a call inside uploadToSupabase never
\* returns from there; when the upload step ends without an artifact URL the
\* report id is null too and the analysis request is issued all the same;
\* and a call that analysed without an artifact still emits one verdict,
\* computed by the reconciliation from the reply and the local signals.
C15_StorageFailureNotFatal ==
    [][ \A s \in Calls :
          /\ pc[s] \in UploadSteps => pc'[s] \in UploadSteps \cup {"fetch"}
          /\ (pc[s] \in UploadSteps /\ pc'[s] = "fetch" /\ ~IsSome(supabaseUrl'[s]))
             => /\ ~IsSome(reportId'[s])
                /\ IsSome(formData'[s])
                /\ ~IsSome(Get(formData'[s]).report_id)
          /\ (Analyzing(s) /\ ~IsSome(supabaseUrl[s]) /\ pc'[s] = "done")
             => /\ verdicts'[s] = verdicts[s] + 1
                /\ ~Get(lastVerdict').caught
                /\ LET v == Reconcile(Get(lastVerdict').data, preliminary(coords[s]), None)
                   IN  /\ Get(resultData').status = v.status
                       /\ Get(resultData').message = v.message ]_vars

\* the photo could not be stored, the analysis call still answered {violation,
\* "Missing QR"} and that is the verdict
C15_Witness ==
    /\ Reconciled /\ IsSome(LastData)
    /\ ~IsSome(Get(lastVerdict).url)
    /\ LastReply = [status |-> Some("violation"), message |-> Some(<<"Missing QR">>)]
    /\ Final.status = "violation" /\ Final.message = <<"Missing QR">>
    /\ ~IsSome(Final.supabaseUrl)

\* what the geofence check says about the position of call s, as a row
PolicyRow(s) ==
    IF checkGeofence(coords[s]).ok
    THEN [id |-> s, status |-> "pending", message |-> None]
    ELSE [id |-> s, status |-> "violation", message |-> checkGeofence(coords[s]).reason]

\* C16: the local policy check precedes storage and the analysis call: the
\* provisional row of a call is in the table, with status violation and the
\* policy reason if its position failed the geofence and with status
\* pending and no message otherwise, for as long as the analysis call of
\* that call is pending; and no row holds anything else.
C16_ProvisionalRowCarriesPreliminary ==
    /\ \A s \in Calls : (Analyzing(s) /\ IsSome(reportId[s])) => PolicyRow(s) \in reports
    /\ \A r \in reports : \/ r.status = "violation" /\ r.message = Some(ZoneReason)
                          \/ r.status = "pending" /\ r.message = None

\* the analysis call failed after the row of an out-of-zone photo was inserted:
\* the violation is on record
C16_Witness ==
    /\ RemoteFailed
    /\ Get(lastVerdict).prelim = "violation"
    /\ Final.coords = Some("far")
    /\ IsSome(Get(lastVerdict).url)
    /\ \E r \in reports : r.status = "violation" /\ r.message = Some(ZoneReason)

C18_LocationNeverFails ==
    [][ \A s \in Calls :
          pc[s] \in {"lastKnown", "locate", "geocode"}
          => /\ pc'[s] \notin {"flagTimer", "done"}
             /\ verdicts'[s] = verdicts[s]
             /\ coords'[s] \in Positions \cup {SentinelCoords} ]_vars

\* C19: the (0,0) sentinel is never treated as a real fix: a call whose
\* location could not be acquired records no violation row, and its verdict
\* is not computed from an out-of-zone preliminary.
C19_SentinelNotAFix ==
    /\ \A s \in Calls :
         (Analyzing(s) /\ coords[s] = SentinelCoords)
         => \A r \in reports : r.id = s => r.status # "violation"
    /\ (Reconciled /\ Final.coords = Some(SentinelCoords))
       => Get(lastVerdict).prelim # "violation"

\* C20: location acquisition is cached-first: after the capture the
\* last-known fix is asked for first ("lastKnown"), and a fresh fix is
\* requested ("locate") only by a call whose cached attempt has just
\* returned without a fix.
C20_CachedFirst ==
    [][ \A s \in Calls :
          /\ (pc[s] = "capture" /\ pc'[s] \notin {"capture", "flagTimer", "done"})
             => pc'[s] = "lastKnown"
          /\ (pc[s] # "locate" /\ pc'[s] = "locate")
             => (pc[s] = "lastKnown" /\ coords'[s] = SentinelCoords) ]_vars

\* C21: the decoded value is cleared by the finalizer of every call,
\* whatever branch it returns on, and a stored value goes with one
\* submission only: a press on Capture never picks up a stored value that
\* an earlier press has picked up already (no detection was accepted in
\* between).
C21_CodeClearedNotReattached ==
    [][ /\ \A s \in Calls : (Running(s) /\ pc'[s] = "done") => qrValue' = None
        /\ (nCalls' = nCalls + 1 /\ IsSome(qrValue)) => qrFresh ]_vars

\* C22: the qr_value of a call's analysis request is the value the scanner
\* had stored when Capture was pressed for that call, "" if the cell was
\* empty then: the call takes the cell's one value with it at the press,
\* and what is detected afterwards does not reach its request.
C22_SendsLatestAccepted ==
    [][ /\ nCalls' = nCalls + 1 => qrSeen'[nCalls'] = qrValue
        /\ \A s \in Calls :
             (~IsSome(formData[s]) /\ IsSome(formData'[s]))
             => Get(formData'[s]).qr_value = OrElse(qrSeen[s], "") ]_vars

\* "A" then "B" were accepted before the press, "A" again after it: the
\* request carries "B"
C22_Witness ==
    \E s \in Calls :
        /\ IsSome(formData[s]) /\ Get(formData[s]).qr_value = "B"
        /\ qrValue = Some("A")

\* C23: while the debounce window that an accepted detection opened has
\* not elapsed, no decoded value is stored: the cell keeps its value or is
\* emptied by a finalizer, whatever code the further events carry.
C23_Debounce ==
    [][ scanWindow => (qrValue' = qrValue \/ qrValue' = None) ]_vars

\* C24: a report row, once inserted, stays in the collection unchanged
\* through every later step of every call (cancel, failed analysis, error
\* verdict, a new press); a step inserts at most one row, and a call never
\* has more than one row.
C24_RowsAreNeverUndone ==
    [][ /\ reports \subseteq reports'
        /\ Cardinality(reports' \ reports) <= 1
        /\ \A r1, r2 \in reports' : r1.id = r2.id => r1 = r2 ]_vars

\* a call that was cancelled during the analysis and has returned, with
\* its row in the collection
C24_Witness ==
    \E s \in Calls :
        /\ pc[s] = "done" /\ aborted[s]
        /\ \E r \in reports : r.id = s

VerdictStatuses == {"success", "violation", "error", "warning", "pending"}

\* C25: every verdict handed to the result modal has one of the five
\* statuses success, violation, error, warning, pending, whatever the
\* analysis service answered.
C25_StatusInEnum ==
    IsSome(resultData) => Get(resultData).status \in VerdictStatuses

\* the result of the last run of the local checks
Checked == Get(policyOut)

\* C26: when the zone check and the time check both fail, the preliminary
\* result carries the zone reason; the time reason is carried only when
\* the zone check passed (and the time check failed).
C26_ZoneBeforeTime ==
    IsSome(policyOut)
    => /\ (~Checked.geo.ok /\ ~Checked.tw.ok)
          => Checked.preliminary = [status |-> "violation", message |-> Some(ZoneReason)]
       /\ Checked.preliminary.message = Some(TimeReason)
          => (Checked.geo.ok /\ ~Checked.tw.ok)

\* out of the zone and after the window: the zone reason
C26_Witness ==
    /\ IsSome(policyOut)
    /\ distIn > Checked.radius /\ nowIn > WINDOW_END_ISO
    /\ Checked.preliminary.message = Some(ZoneReason)

\* C27: the geofence decision is ok for every distance up to and
\* including the configured radius (the center, distance 0, among them)
\* and {not ok, "Out of allowed zone"} for every distance beyond it.
C27_GeofenceBoundary ==
    IsSome(policyOut)
    => /\ distIn <= Checked.radius => Checked.geo = [ok |-> TRUE, reason |-> None]
       /\ distIn > Checked.radius
          => Checked.geo = [ok |-> FALSE, reason |-> Some(ZoneReason)]

\* exactly 1500 m from the center with the radius of 1500 m: ok
C27_Witness ==
    /\ IsSome(policyOut)
    /\ Checked.radius = GEOFENCE_RADIUS_M * 100
    /\ distIn = Checked.radius
    /\ Checked.geo.ok

\* C28: the time-window check passes exactly for the instants from the
\* start of the window to its end, both included, and fails with
\* "Outside allowed time" for every instant before the start or after the end.
C28_WindowInclusive ==
    IsSome(policyOut)
    => /\ (WINDOW_START_ISO <= nowIn /\ nowIn <= WINDOW_END_ISO)
          => Checked.tw = [ok |-> TRUE, reason |-> None]
       /\ (nowIn < WINDOW_START_ISO \/ nowIn > WINDOW_END_ISO)
          => Checked.tw = [ok |-> FALSE, reason |-> Some(TimeReason)]

\* the last instant of the window: passes
C28_Witness ==
    /\ IsSome(policyOut)
    /\ nowIn = WINDOW_END_ISO
    /\ Checked.tw.ok

\* C29: the title of the result modal is one of the three titles, and a
\* verdict whose status is success or error is never shown under
\* "Violation Detected".
C29_TitleAgreesWithVerdict ==
    (resultModalVisible /\ IsSome(resultData))
    => /\ ModalTitle(resultData) \in {NO_ISSUES_TITLE, INVALID_IMAGE_TITLE, VIOLATION_TITLE}
       /\ Get(resultData).status \in {"success", "error"}
          => ModalTitle(resultData) # VIOLATION_TITLE

\* C30: every call that has shown a result has a row in the reports
\* collection, whatever became of its upload and of its analysis call.
C30_ShownResultHasRow ==
    \A s \in Calls : verdicts[s] >= 1 => \E r \in reports : r.id = s

\* C31: a cancel pressed while no cancellation token is stored (the call
\* is capturing, locating, geocoding or uploading) clears the flag and
\* nothing else: no call is stopped or marked aborted, no row and no
\* verdict changes. A call is marked aborted only through the stored
\* token, and a call that returns unaborted has made its verdict.
C31_EarlyCancelAbortsNothing ==
    [][ /\ (isUploading /\ ~isUploading' /\ abortController = None
              /\ \A s \in Calls : Running(s) => Running(s)')
           => /\ pc' = pc /\ aborted' = aborted /\ abortController' = None
              /\ reports' = reports /\ verdicts' = verdicts
              /\ resultData' = resultData
        /\ \A s \in Calls :
             /\ (~aborted[s] /\ aborted'[s]) => abortController = Some(s)
             /\ (Running(s) /\ pc'[s] = "done" /\ ~aborted'[s]) => verdicts'[s] = 1 ]_vars

\* the only call of the run was cancelled before its analysis step (it saw
\* the flag cleared twice, by the cancel and by its finalizer), was never
\* aborted, wrote its row, got a reply and made its verdict
C31_Witness ==
    /\ nCalls = 1 /\ pc[1] = "done"
    /\ resets[1] = 2 /\ ~aborted[1]
    /\ \E r \in reports : r.id = 1
    /\ Reconciled /\ IsSome(LastData)
    /\ verdicts[1] = 1 /\ ~isUploading

\* C32: whenever the analysis call of a submission is in flight, the
\* stored cancellation token is the token of that call (so a cancel aborts
\* exactly that call, and no other call's finalizer has taken it away).
C32_TokenIsThatOfCallInFlight ==
    \A s \in Calls : Analyzing(s) => abortController = Some(s)

\* C33: a code accepted while a submission is in flight is lost: the
\* accepting step changes no request and no value a running call took with
\* it, the request of a call carries the value taken at its press, the
\* return of a call empties the cell, and no press picks up a value that
\* was accepted while a submission was in flight.
C33_ScanInFlightIsLost ==
    [][ /\ (IsSome(qrValue') /\ qrValue' # qrValue)
           => (formData' = formData /\ qrSeen' = qrSeen)
        /\ \A s \in Calls :
             /\ (~IsSome(formData[s]) /\ IsSome(formData'[s]))
                => Get(formData'[s]).qr_value = OrElse(qrSeen[s], "")
             /\ (Running(s) /\ pc'[s] = "done") => qrValue' = None
        /\ (nCalls' = nCalls + 1 /\ IsSome(qrValue)) => ~scannedInFlight ]_vars

\* C34: uploadToSupabase hands back a URL only when the photo is in the
\* bucket and the row is in the table. When the storage upload succeeded
\* and the insert failed, the photo stays in the bucket, the call gets
\* {url: null, id: null}, sends an empty image_url, and its fallback
\* verdict (analysis failed, local policy passed) is {error, "Upload failed"}.
C34_UrlOnlyIfStoredAndInserted ==
    [][ /\ \A s \in Calls :
             /\ (~uploaded[s] /\ uploaded'[s])
                => /\ IsSome(supabaseUrl'[s])
                      => (s \in stored' /\ \E r \in reports' : r.id = s)
                   /\ (pc[s] = "insert" /\ ~\E r \in reports' : r.id = s)
                      => /\ s \in stored'
                         /\ supabaseUrl'[s] = None /\ reportId'[s] = None
                         /\ Get(formData'[s]).image_url = ""
             /\ (Running(s) /\ verdicts'[s] = verdicts[s] + 1
                   /\ ~Get(lastVerdict').caught
                   /\ supabaseUrl[s] = None
                   /\ ~IsSome(Get(lastVerdict').data)
                   /\ Get(lastVerdict').prelim = "pending")
                => /\ Get(resultData').status = "error"
                   /\ Get(resultData').message = UPLOAD_FAILED_MSG
        /\ stored \subseteq stored' ]_vars

\* the only call of the run stored its photo, failed to insert its row,
\* got no reply and was answered {error, "Upload failed"}
C34_Witness ==
    /\ nCalls = 1 /\ pc[1] = "done"
    /\ 1 \in stored /\ ~\E r \in reports : r.id = 1
    /\ RemoteFailed
    /\ Final.status = "error" /\ Final.message = UPLOAD_FAILED_MSG

\* C35: whatever the order in which loadInitial, onRefresh and loadMore
\* return, the list holds the pages 0..page in order, page k fetched from
\* offset 12*k: none skipped, none twice, none left over from before a
\* refresh.
C35_ListIsPagesInOrder ==
    listed # <<>>
    => /\ Len(listed) = page + 1
       /\ \A i \in DOMAIN listed : listed[i].from = PAGE_SIZE * (i - 1)

\* C36: at most one loadMore awaits its page at any time; a loadMore
\* issues a fetch only when no other loadMore is in flight, the initial
\* load has returned and the end has not been reached.
C36_OneLoadMoreInFlight ==
    [][ /\ Len(moreCalls') <= 1
        /\ Len(moreCalls') > Len(moreCalls)
           => /\ moreCalls = <<>> /\ ~loadingMoreRef
              /\ ~loading /\ initCall = "done"
              /\ ~endReached ]_vars

\* a loadMore awaits its page while the list is on screen: reaching the
\* end again returns at the guard
C36_Witness ==
    /\ Len(moreCalls) = 1 /\ loadingMoreRef
    /\ ListRendered

\* C37: endReached turns true exactly on the return of a fetch whose page
\* holds fewer than 12 rows, and every such return leaves it true; it turns
\* false only when the initial load or a refresh recomputes it from a full
\* page 0; while it is true no loadMore issues a fetch.
C37_EndReached ==
    [][ /\ (~endReached /\ endReached')
           => (lastFetch' # lastFetch /\ lastFetch'.ok /\ lastFetch'.n < PAGE_SIZE)
        /\ (lastFetch' # lastFetch /\ lastFetch'.ok /\ lastFetch'.n < PAGE_SIZE)
           => endReached'
        /\ (endReached /\ ~endReached')
           => /\ lastFetch' # lastFetch /\ lastFetch'.ok
              /\ lastFetch'.op \in {"initial", "refresh"}
              /\ lastFetch'.n = PAGE_SIZE
        /\ endReached => Len(moreCalls') <= Len(moreCalls) ]_vars

\* a loadMore brought a short page 1: the end is reached, nothing in flight
C37_Witness ==
    /\ endReached /\ page = 1
    /\ lastFetch.op = "more" /\ lastFetch.ok /\ lastFetch.n = 5
    /\ moreCalls = <<>> /\ ListRendered

\* C38: when the fetch of a loadMore throws, the list, the page and
\* endReached stay as they are and loadingMoreRef is released; when the
\* fetch of a refresh or of the initial load throws, its indicator is
\* cleared all the same.
C38_FailedFetchReleases ==
    [][ (lastFetch' # lastFetch /\ ~lastFetch'.ok)
        => /\ listed' = listed /\ page' = page /\ endReached' = endReached
           /\ lastFetch'.op = "more" => ~loadingMoreRef'
           /\ lastFetch'.op = "refresh" => ~refreshing'
           /\ lastFetch'.op = "initial" => ~loading' ]_vars

\* the fetch of page 2 threw: pages 0 and 1 are listed, the guard is free
C38_Witness ==
    /\ lastFetch.op = "more" /\ ~lastFetch.ok
    /\ page = 1 /\ Len(listed) = 2 /\ ~endReached
    /\ ~loadingMoreRef /\ moreCalls = <<>>

====
